---- MODULE Spec2Model ----
(***************************************************************************)
(* Model of the generic table component of the chatbot UI                  *)
(* (chatbot-ui/src/components/DataTable.tsx): its props, its internal page  *)
(* index, the reset effect, the page slice, the caption, the four          *)
(* navigation buttons and the Excel export.                                *)
(*                                                                         *)
(* One state of the model is one committed render of a mounted DataTable:  *)
(* `props` are the props of that render, `internalPage` is the useState    *)
(* cell, `last` records the event that led to this render and what the     *)
(* environment observed of it (callback invocation, workbook, alert).      *)
(***************************************************************************)
EXTENDS Integers, Sequences, FiniteSets, TLC

VARIABLES props, internalPage, last

\* VoucherTable: its props
VARIABLES voucherProps

\* ChatInterface: its state, and the requests sent and not yet settled
VARIABLES messages, input, isThinking, isStreaming, inFlight

\* ActionButtons: its props and state, the actions whose onActionComplete
\* promise is not yet settled (in the order of the calls) and how often the
\* callback was invoked per action
VARIABLES actions, onActionComplete, completedActions, processingAction, awaiting, calls

voucherVars == <<voucherProps>>
chatVars == <<messages, input, isThinking, isStreaming, inFlight>>
buttonVars ==
  <<actions, onActionComplete, completedActions, processingAction, awaiting, calls>>

vars == <<props, internalPage, last, voucherVars, chatVars, buttonVars>>

(***************************************************************************)
(* Bounds of the model.                                                    *)
(***************************************************************************)
MaxRows == 12          \* longest row array handed to the component
MaxTotal == 14         \* largest producer-supplied total count
MaxBelow == 1          \* how far below page 0 a controlling caller's page index goes
MaxPage == 4           \* largest page index a controlling caller supplies

(***************************************************************************)
(* Optional props: `undefined` or a supplied value.                        *)
(***************************************************************************)
undefined == [some |-> FALSE, v |-> 0]
Some(x) == [some |-> TRUE, v |-> x]

Min(a, b) == IF a <= b THEN a ELSE b
Max(a, b) == IF a >= b THEN a ELSE b

(***************************************************************************)
(* JavaScript values of row fields, tagged with their typeof class.        *)
(* An object carries the result of its toString() and its own fields.      *)
(***************************************************************************)
JsUndefined == [t |-> "undefined"]
JsNull == [t |-> "null"]
Str(x) == [t |-> "string", s |-> x]
Num(x) == [t |-> "number", n |-> x]
\* the non-integer m / 10^d, d > 0, m not a multiple of 10; and NaN
Dec(m, d) == [t |-> "number", n |-> m, d |-> d]
NaN == [t |-> "number", nan |-> TRUE]
IsNaN(v) == v.t = "number" /\ "nan" \in DOMAIN v
Scale(v) == IF "d" \in DOMAIN v THEN v.d ELSE 0

RECURSIVE MkNum(_, _)
MkNum(m, d) ==
  IF d = 0 THEN Num(m)
  ELSE IF m % 10 = 0 THEN MkNum(m \div 10, d - 1)
  ELSE Dec(m, d)

RECURSIVE Pow10(_)
Pow10(k) == IF k = 0 THEN 1 ELSE 10 * Pow10(k - 1)

Abs(x) == IF x < 0 THEN 0 - x ELSE x
Bool(x) == [t |-> "boolean", b |-> x]
Arr(xs) == [t |-> "array", items |-> xs]
Obj(str, fields) == [t |-> "object", str |-> str, o |-> fields]

\* row[key]: a field the row lacks reads as undefined
Get(row, key) == IF key \in DOMAIN row THEN row[key] ELSE JsUndefined

(***************************************************************************)
(* Rows: an open mapping from field name to value.  Row i of a payload     *)
(* carries its 1-based position in `id`, so rows are pairwise distinct.    *)
(***************************************************************************)
MkRow(i) ==
  [id |-> Num(i),
   name |-> Str("Ledger"),
   balanced |-> Bool(i % 2 = 0),
   actions |-> Str("http://view")]

Rows(n) == [i \in 1..n |-> MkRow(i)]

DataSets == {Rows(n) : n \in 0..MaxRows}

(***************************************************************************)
(* Column definitions (interface ColumnDefinition).                        *)
(***************************************************************************)
Col(k, h) == [key |-> k, header |-> h]

LedgerColumns == <<Col("id", "ID"), Col("name", "Name")>>
VoucherColumns == <<Col("id", "ID"), Col("balanced", "Balanced"), Col("actions", "Actions")>>

(***************************************************************************)
(* DataTableProps.  The two call sites of the model: a ledger table with   *)
(* a title and the default page size, and an untitled voucher listing      *)
(* that asks for 20 rows per page.                                         *)
(***************************************************************************)
CallSites ==
  {[columns |-> LedgerColumns, title |-> Some("Ledgers"), pageSize |-> undefined],
   [columns |-> VoucherColumns, title |-> undefined, pageSize |-> Some(20)]}

TotalCounts == {undefined} \cup {Some(c) : c \in {3, 7, MaxRows, MaxTotal}}
CurrentPages == {undefined} \cup {Some(k) : k \in (0 - MaxBelow)..MaxPage}

DataTableProps ==
  {[data |-> d, columns |-> s.columns, totalCount |-> c, pageSize |-> s.pageSize,
    currentPage |-> k, onPageChange |-> cb, title |-> s.title, showPagination |-> sp] :
     d \in DataSets, s \in CallSites, c \in TotalCounts, k \in CurrentPages,
     cb \in BOOLEAN, sp \in BOOLEAN}

(***************************************************************************)
(* The render pass of DataTable: values derived from props and state.      *)
(***************************************************************************)
pageSize == 5

currentPageOf(p, internal) ==
  IF p.currentPage # undefined THEN p.currentPage.v ELSE internal

currentPage == currentPageOf(props, internalPage)

effectiveTotalCountOf(p) ==
  IF p.totalCount # undefined THEN p.totalCount.v ELSE Len(p.data)

effectiveTotalCount == effectiveTotalCountOf(props)

\* Math.ceil(a / b) for a >= 0, b > 0
Ceil(a, b) == (a + b - 1) \div b

\* mutant: rounds down instead of up
totalPagesOf_Floor(p) == effectiveTotalCountOf(p) \div pageSize

totalPagesOf(p) == Ceil(effectiveTotalCountOf(p), pageSize)

totalPages == totalPagesOf(props)

\* Array.prototype.slice(start, end): negative indices count from the end
Slice(arr, start, end) ==
  LET n == Len(arr)
      k == IF start < 0 THEN Max(n + start, 0) ELSE Min(start, n)
      f == IF end < 0 THEN Max(n + end, 0) ELSE Min(end, n)
  IN  IF f > k THEN SubSeq(arr, k + 1, f) ELSE <<>>

paginatedDataOf(p, internal) ==
  IF ~p.showPagination
    THEN p.data
    ELSE LET startIndex == (currentPageOf(p, internal) - 1) * pageSize
             endIndex == startIndex + pageSize
         IN  Slice(p.data, startIndex, endIndex)

paginatedData == paginatedDataOf(props, internalPage)

\* the early return of the render: only the empty-state box is drawn
emptyState == Len(props.data) = 0

displayCount == effectiveTotalCount
showingFrom == (currentPage - 1) * pageSize + 1
showingTo == Min(currentPage * pageSize, effectiveTotalCount)

\* the caption "{showingFrom}-{showingTo} of {displayCount}"
caption == <<showingFrom, showingTo, displayCount>>

\* the navigation bar is drawn
paginationBar == ~emptyState /\ props.showPagination /\ totalPages > 1

(***************************************************************************)
(* The voucher listing (VoucherTable): the first pageSize records, with    *)
(* pageSize = 20 unless the caller gives one.                              *)
(***************************************************************************)
displayRecords(records, pageSizeProp) ==
  Slice(records, 0, IF pageSizeProp # undefined THEN pageSizeProp.v ELSE 20)

(***************************************************************************)
(* Export: the record written for one row (handleExportToExcel).           *)
(***************************************************************************)
\* the decimal digits of n >= 0, left-padded with zeros to width w
RECURSIVE PadZero(_, _)
PadZero(ds, w) == IF Len(ds) >= w THEN ds ELSE PadZero("0" \o ds, w)

\* Number.prototype.toString() of an integer or a short decimal
NumberToString(v) ==
  IF IsNaN(v) THEN "NaN"
  ELSE IF Scale(v) = 0 THEN ToString(v.n)
  ELSE LET p == Pow10(v.d)
           a == Abs(v.n)
       IN  (IF v.n < 0 THEN "-" ELSE "") \o ToString(a \div p) \o "."
             \o PadZero(ToString(a % p), v.d)

\* String(value); Array.prototype.join(sep)
RECURSIVE JsString(_), JoinSep(_, _)
JsString(v) ==
  CASE v.t = "string" -> v.s
    [] v.t = "number" -> NumberToString(v)
    [] v.t = "boolean" -> (IF v.b THEN "true" ELSE "false")
    [] v.t = "null" -> "null"
    [] v.t = "undefined" -> "undefined"
    [] v.t = "object" -> v.str
    [] v.t = "array" -> JoinSep(v.items, ",")
    [] OTHER -> ""

JoinSep(xs, sep) ==
  IF Len(xs) = 0 THEN ""
  ELSE LET e == IF Head(xs).t \in {"null", "undefined"} THEN "" ELSE JsString(Head(xs))
       IN  IF Len(xs) = 1 THEN e ELSE e \o sep \o JoinSep(Tail(xs), sep)

\* cellValue.join(', ')
Join(xs) == JoinSep(xs, ", ")

\* ToBoolean(value)
Truthy(v) ==
  CASE v.t = "string" -> v.s # ""
    [] v.t = "number" -> ~IsNaN(v) /\ v.n # 0
    [] v.t = "boolean" -> v.b
    [] v.t \in {"null", "undefined"} -> FALSE
    [] OTHER -> TRUE

YesNo(c) == IF c THEN Str("Yes") ELSE Str("No")

\* mutant: numbers fall through to the string form
coerceCell_NumbersAsStrings(key, cellValue) ==
  IF cellValue.t \in {"null", "undefined"} THEN Str("")
  ELSE IF cellValue.t = "array" THEN Str(Join(cellValue.items))
  ELSE IF cellValue.t = "object"
    THEN IF cellValue.str # "[object Object]" THEN Str(cellValue.str)
         ELSE IF Truthy(Get(cellValue.o, "name")) THEN Get(cellValue.o, "name")
         ELSE IF Truthy(Get(cellValue.o, "value")) THEN Get(cellValue.o, "value")
         ELSE IF Truthy(Get(cellValue.o, "label")) THEN Get(cellValue.o, "label")
         ELSE Str("")
  ELSE IF key = "balanced" THEN YesNo(Truthy(cellValue))
  ELSE IF cellValue.t = "boolean" THEN YesNo(cellValue.b)
  ELSE Str(JsString(cellValue))

coerceCell(key, cellValue) ==
  IF cellValue.t \in {"null", "undefined"} THEN Str("")
  ELSE IF cellValue.t = "array" THEN Str(Join(cellValue.items))
  ELSE IF cellValue.t = "object"
    THEN IF cellValue.str # "[object Object]" THEN Str(cellValue.str)
         ELSE IF Truthy(Get(cellValue.o, "name")) THEN Get(cellValue.o, "name")
         ELSE IF Truthy(Get(cellValue.o, "value")) THEN Get(cellValue.o, "value")
         ELSE IF Truthy(Get(cellValue.o, "label")) THEN Get(cellValue.o, "label")
         ELSE Str("")
  ELSE IF key = "balanced" THEN YesNo(Truthy(cellValue))
  ELSE IF cellValue.t = "boolean" THEN YesNo(cellValue.b)
  ELSE IF cellValue.t = "number" THEN cellValue
  ELSE Str(JsString(cellValue))

\* mutant: every displayed column is exported
exportColumns_All(columns) == columns

\* columns.filter(col => col.key !== 'actions')
exportColumns(columns) == SelectSeq(columns, LAMBDA col : col.key # "actions")

\* rowData[column.header] = cellValue, column by column: the last column
\* with a given header decides the field
rowData(row, cols) ==
  [h \in {cols[j].header : j \in 1..Len(cols)} |->
     LET j == CHOOSE m \in 1..Len(cols) :
                /\ cols[m].header = h
                /\ \A m2 \in 1..Len(cols) : cols[m2].header = h => m2 <= m
     IN  coerceCell(cols[j].key, Get(row, cols[j].key))]

\* mutant: exports the rows of the visible page only
exportDataOf_VisiblePage(p) ==
  LET visible == paginatedDataOf(p, internalPage)
  IN  [i \in 1..Len(visible) |-> rowData(visible[i], exportColumns(p.columns))]

exportDataOf(p) ==
  [i \in 1..Len(p.data) |-> rowData(p.data[i], exportColumns(p.columns))]

sheetName(p) == IF p.title # undefined THEN p.title.v ELSE "Data"

(***************************************************************************)
(* Strings as the currency factory reads and writes them: parseFloat,      *)
(* String.prototype.replace(/[chars]/g, '') and                            *)
(* toLocaleString('en-IN', two fraction digits).  Exponents and Infinity   *)
(* are not part of the strings considered.                                 *)
(***************************************************************************)
Digits == {"0", "1", "2", "3", "4", "5", "6", "7", "8", "9"}
DigitVal(c) == CHOOSE i \in 0..9 : ToString(i) = c

RECURSIVE TakeDigits(_)
TakeDigits(s) ==
  IF s = "" THEN ""
  ELSE IF Head(s) \in Digits THEN Head(s) \o TakeDigits(Tail(s))
  ELSE ""

RECURSIVE DigitsToInt(_, _)
DigitsToInt(s, acc) ==
  IF s = "" THEN acc ELSE DigitsToInt(Tail(s), acc * 10 + DigitVal(Head(s)))

RECURSIVE RemoveChars(_, _)
RemoveChars(s, cs) ==
  IF s = "" THEN ""
  ELSE IF Head(s) \in cs THEN RemoveChars(Tail(s), cs)
  ELSE Head(s) \o RemoveChars(Tail(s), cs)

RECURSIVE DropSpaces(_)
DropSpaces(s) == IF s # "" /\ Head(s) = " " THEN DropSpaces(Tail(s)) ELSE s

\* the longest numeric prefix of s and what follows it
ScanFloat(s) ==
  LET t == DropSpaces(s)
      signed == t # "" /\ Head(t) \in {"-", "+"}
      neg == t # "" /\ Head(t) = "-"
      u == IF signed THEN Tail(t) ELSE t
      ip == TakeDigits(u)
      r1 == SubSeq(u, Len(ip) + 1, Len(u))
      hasDot == r1 # "" /\ Head(r1) = "."
      fp == IF hasDot THEN TakeDigits(Tail(r1)) ELSE ""
      ok == ip # "" \/ fp # ""
      m == DigitsToInt(ip \o fp, 0)
  IN  [val |-> IF ok THEN MkNum(IF neg THEN 0 - m ELSE m, Len(fp)) ELSE NaN,
       rest |-> IF ~ok THEN s
                ELSE IF hasDot THEN SubSeq(r1, Len(fp) + 2, Len(r1))
                ELSE r1]

parseFloat(s) == ScanFloat(s).val

\* Number(value)
JsNumber(v) ==
  CASE v.t = "number" -> v
    [] v.t = "boolean" -> (IF v.b THEN Num(1) ELSE Num(0))
    [] v.t = "null" -> Num(0)
    [] v.t = "undefined" -> NaN
    [] OTHER ->
         LET str == JsString(v)
             sc == ScanFloat(str)
         IN  IF DropSpaces(str) = "" THEN Num(0)
             ELSE IF DropSpaces(sc.rest) = "" THEN sc.val
             ELSE NaN

\* integer digits grouped the Indian way: the last three, then pairs
RECURSIVE GroupPairs(_)
GroupPairs(ds) ==
  IF Len(ds) <= 2 THEN ds
  ELSE GroupPairs(SubSeq(ds, 1, Len(ds) - 2)) \o "," \o SubSeq(ds, Len(ds) - 1, Len(ds))

GroupIN(ds) ==
  IF Len(ds) <= 3 THEN ds
  ELSE GroupPairs(SubSeq(ds, 1, Len(ds) - 3)) \o "," \o SubSeq(ds, Len(ds) - 2, Len(ds))

\* the value in hundredths, rounded half away from zero
Hundredths(v) ==
  LET d == Scale(v)
  IN  IF d <= 2 THEN v.n * Pow10(2 - d)
      ELSE LET q == (Abs(v.n) + Pow10(d - 2) \div 2) \div Pow10(d - 2)
           IN  IF v.n < 0 THEN 0 - q ELSE q

toLocaleString(v) ==
  LET a == Abs(Hundredths(v))
  IN  (IF v.n < 0 THEN "-" ELSE "") \o GroupIN(ToString(a \div 100)) \o "."
        \o PadZero(ToString(a % 100), 2)

(***************************************************************************)
(* What a cell shows (a React node): the muted "-" placeholder, a text,    *)
(* a raw value handed over by an accessor, a link button, a truncating     *)
(* span with a hover title.                                                *)
(***************************************************************************)
Placeholder == [node |-> "placeholder"]
Text(x) == [node |-> "text", s |-> x]
Value(v) == [node |-> "value", v |-> v]
Link(href, label) == [node |-> "link", href |-> href, label |-> label]
Span(x, title) == [node |-> "span", s |-> x, title |-> title]

(***************************************************************************)
(* Column definitions with a render or an accessor.  A render is one of    *)
(* the functions the source builds: the four column factories and the two  *)
(* inline renders of renderTableFromData; an accessor reads a field of     *)
(* the row or gives the row's number.                                      *)
(***************************************************************************)
WithRender(col, r) == [key |-> col.key, header |-> col.header, render |-> r]
WithAccessor(col, a) == [key |-> col.key, header |-> col.header, accessor |-> a]
WithBoth(col, r, a) ==
  [key |-> col.key, header |-> col.header, render |-> r, accessor |-> a]

\* label: a string, a function of the row (here: one of its fields) or none
NoLabel == [kind |-> "none"]
LabelString(x) == [kind |-> "string", s |-> x]
LabelField(f) == [kind |-> "fn", field |-> f]

createLinkColumn(key, header, urlField, label) ==
  WithRender(Col(key, header), [kind |-> "link", urlField |-> urlField, label |-> label])

createCurrencyColumn(key, header, currency) ==
  WithRender(Col(key, header), [kind |-> "currency", currency |-> currency])

createDateColumn(key, header, format) ==
  WithRender(Col(key, header), [kind |-> "date", format |-> format])

createTextColumn(key, header) ==
  WithRender(Col(key, header), [kind |-> "text"])

\* the result of the caller's date formatter on a string
Formatted(x) == "fmt(" \o x \o ")"

\* mutant: the not-a-number fallback is missing
renderCurrency_NoFallback(currency, value) ==
  IF value.t \in {"null", "undefined"} \/ value = Str("") THEN Placeholder
  ELSE LET numValue == IF value.t = "string"
                         THEN parseFloat(RemoveChars(value.s, {"₹", ","}))
                         ELSE JsNumber(value)
       IN  IF IsNaN(numValue) THEN Text(currency \o "NaN")
           ELSE Text(currency \o toLocaleString(numValue))

renderCurrency(currency, value) ==
  IF value.t \in {"null", "undefined"} \/ value = Str("") THEN Placeholder
  ELSE LET numValue == IF value.t = "string"
                         THEN parseFloat(RemoveChars(value.s, {"₹", ","}))
                         ELSE JsNumber(value)
       IN  IF IsNaN(numValue) THEN Text(JsString(value))
           ELSE Text(currency \o toLocaleString(numValue))

renderLink(r, row) ==
  LET url == Get(row, r.urlField)
  IN  IF ~Truthy(url) THEN Placeholder
      ELSE Link(JsString(url),
                IF r.label.kind = "fn" THEN JsString(Get(row, r.label.field))
                ELSE IF r.label.kind = "string" /\ r.label.s # "" THEN r.label.s
                ELSE "View")

renderDate(r, value) ==
  IF ~Truthy(value) THEN Placeholder
  ELSE IF r.format THEN Text(Formatted(JsString(value)))
  ELSE Text(JsString(value))

\* String(value || fallback)
StringOr(value, fallback) == IF Truthy(value) THEN JsString(value) ELSE fallback

applyRender(r, value, row, index) ==
  CASE r.kind = "link" -> renderLink(r, row)
    [] r.kind = "currency" -> renderCurrency(r.currency, value)
    [] r.kind = "date" -> renderDate(r, value)
    [] r.kind = "text" -> Span(StringOr(value, ""), StringOr(value, ""))
    [] r.kind = "party" -> Span(StringOr(value, "-"), StringOr(value, ""))
    [] r.kind = "balanced" -> Text(IF Truthy(value) THEN "Yes" ELSE "No")

applyAccessor(a, row, index) ==
  IF a.kind = "field" THEN Value(Get(row, a.field)) ELSE Value(Num(index + 1))

(***************************************************************************)
(* getCellValue: the content of one cell and the source it came from.      *)
(***************************************************************************)
\* mutant: the accessor is consulted before the render
getCellValue_AccessorFirst(row, column, index) ==
  IF "accessor" \in DOMAIN column
    THEN [content |-> applyAccessor(column.accessor, row, index), used |-> "accessor"]
  ELSE IF "render" \in DOMAIN column
    THEN [content |-> applyRender(column.render, Get(row, column.key), row, index),
          used |-> "render"]
  ELSE LET value == Get(row, column.key)
       IN  [content |-> IF value.t \in {"null", "undefined"} THEN Placeholder
                        ELSE Text(JsString(value)),
            used |-> "raw"]

getCellValue(row, column, index) ==
  IF "render" \in DOMAIN column
    THEN [content |-> applyRender(column.render, Get(row, column.key), row, index),
          used |-> "render"]
  ELSE IF "accessor" \in DOMAIN column
    THEN [content |-> applyAccessor(column.accessor, row, index), used |-> "accessor"]
  ELSE LET value == Get(row, column.key)
       IN  [content |-> IF value.t \in {"null", "undefined"} THEN Placeholder
                        ELSE Text(JsString(value)),
            used |-> "raw"]

\* the body of the table: one cell per visible row and column
tableBody ==
  [i \in 1..Len(paginatedData) |->
     [j \in 1..Len(props.columns) |->
        getCellValue(paginatedData[i], props.columns[j], i - 1)]]

(***************************************************************************)
(* getRowKey.  A key extractor reads a field of the row or gives its       *)
(* position.  Rows are mappings, so typeof row === 'object' holds.         *)
(***************************************************************************)
applyKeyExtractor(k, row, index) ==
  IF k.kind = "field" THEN Get(row, k.field) ELSE Num(index)

\* mutant: the index field is tried before the id field
getRowKeyOf_IndexFirst(p, row, index) ==
  IF "keyExtractor" \in DOMAIN p THEN applyKeyExtractor(p.keyExtractor, row, index)
  ELSE IF Get(row, "index") # JsUndefined THEN Get(row, "index")
  ELSE IF Get(row, "id") # JsUndefined THEN Get(row, "id")
  ELSE IF Get(row, "key") # JsUndefined THEN Get(row, "key")
  ELSE Num(index)

getRowKeyOf(p, row, index) ==
  IF "keyExtractor" \in DOMAIN p THEN applyKeyExtractor(p.keyExtractor, row, index)
  ELSE IF Get(row, "id") # JsUndefined THEN Get(row, "id")
  ELSE IF Get(row, "index") # JsUndefined THEN Get(row, "index")
  ELSE IF Get(row, "key") # JsUndefined THEN Get(row, "key")
  ELSE Num(index)

\* getRowKey(row, index) of the visible rows
rowKeyValues ==
  [i \in 1..Len(paginatedData) |-> getRowKeyOf(props, paginatedData[i], i - 1)]

\* key={getRowKey(row, index)}: React compares keys as strings
rowKeys == [i \in 1..Len(paginatedData) |-> JsString(rowKeyValues[i])]

(***************************************************************************)
(* What the environment observed of the last event: the page handed to     *)
(* onPageChange, the workbook handed to XLSX.writeFile, the alert.         *)
(***************************************************************************)
NoCall == 0 - 1000
NoWorkbook == [written |-> FALSE, sheet |-> "", records |-> <<>>]

Event(op, arg, cb, wb, alert) ==
  [op |-> op, arg |-> arg, cb |-> cb, from |-> internalPage,
   workbook |-> wb, alert |-> alert]

(***************************************************************************)
(* Mount: useState(1), then the effect runs once.                          *)
(***************************************************************************)
(***************************************************************************)
(* The other components as they are when nothing has happened in them.     *)
(***************************************************************************)
null == [some |-> FALSE, v |-> ""]

NoVoucherTable == voucherProps = [records |-> <<>>, totalCount |-> 0, pageSize |-> undefined]

\* useState([]), useState(""), useState(false), useState(false)
InitChat ==
  /\ messages = <<>>
  /\ input = ""
  /\ isThinking = FALSE
  /\ isStreaming = FALSE
  /\ inFlight = 0

\* useState(new Set()), useState(null)
InitButtons(as, cb) ==
  /\ actions = as
  /\ onActionComplete = cb
  /\ completedActions = {}
  /\ processingAction = null
  /\ awaiting = <<>>
  /\ calls = [a \in {as[k] : k \in 1..Len(as)} |-> 0]

Init ==
  /\ props \in DataTableProps
  /\ internalPage = 1
  /\ last = [op |-> "mount", arg |-> 0, cb |-> NoCall, from |-> 1,
             workbook |-> NoWorkbook, alert |-> FALSE]
  /\ NoVoucherTable
  /\ InitChat
  /\ InitButtons(<<>>, FALSE)

\* mutant: the effect resets without looking at controlledPage
resetEffect_Unconditional(old, new, internal) ==
  IF Len(new.data) # Len(old.data) \/ new.currentPage # old.currentPage
    THEN 1
    ELSE internal

\* mutant: the effect depends on controlledPage only
resetEffect_NoLengthDep(old, new, internal) ==
  IF new.currentPage # old.currentPage /\ new.currentPage = undefined
    THEN 1
    ELSE internal

(***************************************************************************)
(* The reset effect with dependencies [data.length, controlledPage].       *)
(***************************************************************************)
resetEffect(old, new, internal) ==
  IF /\ (Len(new.data) # Len(old.data) \/ new.currentPage # old.currentPage)
     /\ new.currentPage = undefined
    THEN 1
    ELSE internal

(***************************************************************************)
(* The parent renders the table again with one prop changed (or moves it   *)
(* to the other call site's configuration); the effect runs after the      *)
(* commit.  The event records whether data.length changed.                 *)
(***************************************************************************)
PropChanges(p) ==
  {[p EXCEPT !.data = d] : d \in DataSets}
    \cup {[p EXCEPT !.columns = s.columns, !.title = s.title, !.pageSize = s.pageSize] :
            s \in CallSites}
    \cup {[p EXCEPT !.totalCount = c] : c \in TotalCounts}
    \cup {[p EXCEPT !.currentPage = k] : k \in CurrentPages}
    \cup {[p EXCEPT !.onPageChange = b] : b \in BOOLEAN}
    \cup {[p EXCEPT !.showPagination = b] : b \in BOOLEAN}

Rerender ==
  \E np \in PropChanges(props) \ {props} :
    /\ props' = np
    /\ internalPage' = resetEffect(props, np, internalPage)
    /\ last' = Event("render", IF Len(np.data) # Len(props.data) THEN 1 ELSE 0,
                     NoCall, NoWorkbook, FALSE)
    /\ UNCHANGED <<voucherVars, chatVars, buttonVars>>

\* mutant: the upper bound of the range check is missing
handlePageChange_NoUpperBound(newPage) ==
  IF newPage >= 1
    THEN IF props.onPageChange
           THEN /\ internalPage' = internalPage
                /\ last' = Event("nav", newPage, newPage, NoWorkbook, FALSE)
           ELSE /\ internalPage' = newPage
                /\ last' = Event("nav", newPage, NoCall, NoWorkbook, FALSE)
    ELSE /\ internalPage' = internalPage
         /\ last' = Event("nav", newPage, NoCall, NoWorkbook, FALSE)

(***************************************************************************)
(* handlePageChange(newPage), with setCurrentPage = onPageChange ||        *)
(* setInternalPage.                                                        *)
(***************************************************************************)
handlePageChange(newPage) ==
  IF newPage >= 1 /\ newPage <= totalPages
    THEN IF props.onPageChange
           THEN /\ internalPage' = internalPage
                /\ last' = Event("nav", newPage, newPage, NoWorkbook, FALSE)
           ELSE /\ internalPage' = newPage
                /\ last' = Event("nav", newPage, NoCall, NoWorkbook, FALSE)
    ELSE /\ internalPage' = internalPage
         /\ last' = Event("nav", newPage, NoCall, NoWorkbook, FALSE)

(***************************************************************************)
(* The four buttons of the navigation bar; a disabled button does not      *)
(* fire.                                                                   *)
(***************************************************************************)
ClickFirst ==
  /\ paginationBar
  /\ currentPage # 1
  /\ handlePageChange(1)
  /\ UNCHANGED <<props, voucherVars, chatVars, buttonVars>>

ClickPrev ==
  /\ paginationBar
  /\ currentPage # 1
  /\ handlePageChange(currentPage - 1)
  /\ UNCHANGED <<props, voucherVars, chatVars, buttonVars>>

ClickNext ==
  /\ paginationBar
  /\ currentPage # totalPages
  /\ handlePageChange(currentPage + 1)
  /\ UNCHANGED <<props, voucherVars, chatVars, buttonVars>>

ClickLast ==
  /\ paginationBar
  /\ currentPage # totalPages
  /\ handlePageChange(totalPages)
  /\ UNCHANGED <<props, voucherVars, chatVars, buttonVars>>

(***************************************************************************)
(* The "Export to Excel" button.  The workbook library may throw; the      *)
(* catch block then logs and alerts.                                       *)
(***************************************************************************)
\* catch (error): console.error(...) once, alert(...) once
Caught(e) == e @@ [logs |-> 1, alerts |-> 1]

\* the ordinal of a click on the button among the clicks that follow each
\* other with no other event in between
MaxTriggers == 2
trigger == IF last.op = "export" THEN last.arg + 1 ELSE 1

\* mutant: the failure is swallowed without telling the user
handleExportToExcel_SilentFailure ==
  /\ ~emptyState
  /\ trigger <= MaxTriggers
  /\ \E xlsxThrows \in BOOLEAN :
       last' = IF xlsxThrows
                 THEN Event("export", trigger, NoCall, NoWorkbook, FALSE)
                 ELSE Event("export", trigger, NoCall,
                            [written |-> TRUE, sheet |-> sheetName(props),
                             records |-> exportDataOf(props)], FALSE)
  /\ UNCHANGED <<props, internalPage, voucherVars, chatVars, buttonVars>>

\* mutant: a click that follows an export is ignored
handleExportToExcel_SingleFlight ==
  /\ ~emptyState
  /\ trigger <= MaxTriggers
  /\ last.op # "export"
  /\ \E xlsxThrows \in BOOLEAN :
       last' = IF xlsxThrows
                 THEN Caught(Event("export", trigger, NoCall, NoWorkbook, TRUE))
                 ELSE Event("export", trigger, NoCall,
                            [written |-> TRUE, sheet |-> sheetName(props),
                             records |-> exportDataOf(props)], FALSE)
  /\ UNCHANGED <<props, internalPage, voucherVars, chatVars, buttonVars>>

handleExportToExcel ==
  /\ ~emptyState
  /\ trigger <= MaxTriggers
  /\ \E xlsxThrows \in BOOLEAN :
       last' = IF xlsxThrows
                 THEN Caught(Event("export", trigger, NoCall, NoWorkbook, TRUE))
                 ELSE Event("export", trigger, NoCall,
                            [written |-> TRUE, sheet |-> sheetName(props),
                             records |-> exportDataOf(props)], FALSE)
  /\ UNCHANGED <<props, internalPage, voucherVars, chatVars, buttonVars>>

Next ==
  \/ Rerender
  \/ ClickFirst
  \/ ClickPrev
  \/ ClickNext
  \/ ClickLast
  \/ handleExportToExcel

Spec == Init /\ [][Next]_vars

TypeOK ==
  /\ props \in DataTableProps
  /\ internalPage \in 1..(MaxTotal \div pageSize + 1)

(***************************************************************************)
(* The table as the chat interface and other callers feed it: a second     *)
(* specification over short row arrays with fields of every kind.          *)
(*                                                                         *)
(* Field values a producer may send.                                       *)
(***************************************************************************)
CellValues ==
  {JsNull, JsUndefined, Str(""), Str("Yes"), Str("No"), Str("Acme"),
   Str("₹1,234.50"), Str("12 units"), Num(0 - 250), Dec(1005, 3), Num(0), Num(1500), Dec(12345, 1), Bool(TRUE), Bool(FALSE),
   Arr(<<Str("a"), Num(1), JsNull>>),
   Obj("[object Object]", [name |-> Str("Cash")]),
   Obj("[object Object]", [name |-> Str(""), label |-> Str("L")]),
   Obj("[object Object]", [other |-> Num(1)]),
   Obj("2024-04-01", [other |-> Num(1)])}

ProbeKeys == {"name", "balanced", "debit", "date"}

\* a row with identity 1 and one field under test
ProbeRows == {[id |-> Num(1)] @@ (k :> v) : k \in ProbeKeys, v \in CellValues}

\* rows that differ in the identity fields they carry
KeyRows ==
  {[id |-> Num(7), name |-> Str("a")],
   [index |-> Num(1), name |-> Str("a")],
   [key |-> Str("k"), name |-> Str("a")],
   [name |-> Str("a")],
   [id |-> JsNull, index |-> Num(3), name |-> Str("a")],
   [id |-> Num(1), index |-> Num(2), key |-> Str("k"), name |-> Str("a")]}

CellDataSets ==
  {<<>>} \cup {<<r>> : r \in ProbeRows} \cup {<<r1, r2>> : r1 \in KeyRows, r2 \in KeyRows}

(***************************************************************************)
(* renderTableFromData: the DataTable props built from a payload.          *)
(***************************************************************************)
\* the currency symbol literal of the call in renderTableFromData: the
\* three characters U+00E2 U+201A U+00B9, not the rupee sign; the middle one
\* has no place in a TLA+ string and is left out here
ChatCurrency == "â¹"

CurrencyKeys ==
  {"debit", "credit", "opening_balance", "closing_balance", "opening_balance_value"}

columnDef(col) ==
  IF col.key = "actions"
    THEN createLinkColumn("actions", IF col.header # "" THEN col.header ELSE "Actions",
                          "actions", LabelString("View"))
  ELSE IF col.key \in CurrencyKeys
    THEN createCurrencyColumn(col.key, col.header, ChatCurrency)
  ELSE IF col.key = "party" THEN WithRender(col, [kind |-> "party"])
  ELSE IF col.key = "balanced" THEN WithRender(col, [kind |-> "balanced"])
  ELSE col

renderTableFromData(tableData) ==
  [data |-> tableData.rows,
   columns |-> [j \in 1..Len(tableData.columns) |-> columnDef(tableData.columns[j])],
   totalCount |-> IF "total_count" \in DOMAIN tableData
                    THEN Some(tableData.total_count) ELSE undefined,
   pageSize |-> undefined,
   currentPage |-> undefined,
   onPageChange |-> FALSE,
   title |-> IF "title" \in DOMAIN tableData THEN Some(tableData.title) ELSE undefined,
   showPagination |-> TRUE]

(***************************************************************************)
(* Payloads of a chat response; rows or columns may be missing.            *)
(***************************************************************************)
PayloadColumns ==
  <<Col("id", "ID"), Col("name", "Name"), Col("balanced", "Balanced"),
    Col("debit", "Debit"), Col("actions", "Actions"), Col("party", "Party")>>

\* a payload whose producer labels two columns alike
SharedHeaderColumns ==
  <<Col("id", "ID"), Col("debit", "Amount"), Col("credit", "Amount")>>

SharedHeaderRows ==
  <<[id |-> Num(1), debit |-> Num(1500), credit |-> Num(0)],
    [id |-> Num(2), debit |-> Num(0), credit |-> Dec(12345, 1)]>>

Payloads ==
  {[columns |-> PayloadColumns, rows |-> d, title |-> "Ledgers"] : d \in CellDataSets}
    \cup {[columns |-> SharedHeaderColumns, rows |-> SharedHeaderRows, title |-> "Balances"]}
    \cup {[columns |-> PayloadColumns, rows |-> <<r>>] : r \in KeyRows}
    \cup {[columns |-> PayloadColumns]}
    \cup {[rows |-> d] : d \in {<<>>} \cup {<<r>> : r \in KeyRows}}
    \cup {[title |-> "Ledgers"]}

Responses ==
  {[response |-> "ok"]} \cup {[response |-> "ok", table_data |-> td] : td \in Payloads}

(***************************************************************************)
(* Props of callers that use DataTable directly, with accessors, the       *)
(* column factories and a key extractor.                                   *)
(***************************************************************************)
LibraryColumns ==
  <<Col("id", "ID"),
    Col("name", "Name"),
    Col("balanced", "Balanced"),
    Col("debit", "Amount"),
    Col("actions", "Actions"),
    WithAccessor(Col("serial", "#"), [kind |-> "position"]),
    WithAccessor(Col("alias", "Alias"), [kind |-> "field", field |-> "name"]),
    WithBoth(Col("name", "Shown"), [kind |-> "text"], [kind |-> "field", field |-> "id"]),
    createCurrencyColumn("debit", "Debit", "₹"),
    createDateColumn("date", "Date", FALSE),
    createDateColumn("date", "Day", TRUE),
    createTextColumn("name", "Text"),
    createLinkColumn("view_url", "View", "name", LabelField("id")),
    createLinkColumn("actions", "Open", "name", NoLabel)>>

KeyExtractors == {[kind |-> "field", field |-> "name"], [kind |-> "position"]}

LibraryBase(d) ==
  [data |-> d, columns |-> LibraryColumns, totalCount |-> undefined,
   pageSize |-> undefined, currentPage |-> undefined, onPageChange |-> FALSE,
   title |-> undefined, showPagination |-> TRUE]

LibraryProps ==
  {LibraryBase(d) : d \in CellDataSets}
    \cup {LibraryBase(<<r1, r2>>) @@ [keyExtractor |-> k] :
            r1 \in KeyRows, r2 \in KeyRows, k \in KeyExtractors}

(***************************************************************************)
(* No table is on screen.                                                  *)
(***************************************************************************)
NoTable ==
  [data |-> <<>>, columns |-> <<>>, totalCount |-> undefined, pageSize |-> undefined,
   currentPage |-> undefined, onPageChange |-> FALSE, title |-> undefined,
   showPagination |-> TRUE]

\* a DataTable is mounted
mounted == IF "outcome" \in DOMAIN last THEN last.outcome = "table" ELSE last.op # "start"

(***************************************************************************)
(* The table part of handleSubmit once the response has arrived: the       *)
(* response content is built inside try; a TypeError lands in catch, which *)
(* appends the error message and raises the toast.                         *)
(***************************************************************************)
responseOutcome(r) ==
  IF "table_data" \notin DOMAIN r THEN "noTable"
  ELSE IF "rows" \notin DOMAIN r.table_data THEN "error"
  ELSE IF Len(r.table_data.rows) = 0 THEN "noTable"
  ELSE IF "columns" \notin DOMAIN r.table_data THEN "error"
  ELSE "table"

ReceiveResponse ==
  \E r \in Responses :
    LET outcome == responseOutcome(r)
    IN  /\ props' = IF outcome = "table" THEN renderTableFromData(r.table_data) ELSE NoTable
        /\ internalPage' = 1
        /\ last' = [op |-> "response", arg |-> 0, cb |-> NoCall, from |-> 1,
                    workbook |-> NoWorkbook, alert |-> FALSE,
                    outcome |-> outcome, toast |-> outcome = "error", payload |-> r]
        /\ UNCHANGED <<voucherVars, chatVars, buttonVars>>

\* another caller mounts a DataTable of its own
MountTable ==
  \E p \in LibraryProps :
    /\ props' = p
    /\ internalPage' = 1
    /\ last' = [op |-> "mount", arg |-> 0, cb |-> NoCall, from |-> 1,
                workbook |-> NoWorkbook, alert |-> FALSE]
    /\ UNCHANGED <<voucherVars, chatVars, buttonVars>>

InitCells ==
  /\ props = NoTable
  /\ internalPage = 1
  /\ last = [op |-> "start", arg |-> 0, cb |-> NoCall, from |-> 1,
             workbook |-> NoWorkbook, alert |-> FALSE]
  /\ NoVoucherTable
  /\ InitChat
  /\ InitButtons(<<>>, FALSE)

NextCells ==
  \/ ReceiveResponse
  \/ MountTable
  \/ handleExportToExcel

SpecCells == InitCells /\ [][NextCells]_vars

(***************************************************************************)
(* VoucherTable: a function of its props, without state or handlers.  The  *)
(* parent renders it with the records and the count of one answer.         *)
(***************************************************************************)
MaxVouchers == 22
MaxBeyond == 30

VoucherRecords(n) == [i \in 1..n |-> [index |-> i]]

\* pageSize = 20 when the prop is not given
voucherPageSize(p) == IF p.pageSize # undefined THEN p.pageSize.v ELSE 20

VoucherTableProps ==
  {[records |-> VoucherRecords(n), totalCount |-> t, pageSize |-> ps] :
     n \in 0..MaxVouchers, t \in {0, MaxBeyond}, ps \in {undefined, Some(0), Some(3), Some(20)}}

\* the props a producer sends: the count covers at least the records sent
SentVoucherProps ==
  {[p EXCEPT !.totalCount = Len(p.records) + p.totalCount] : p \in VoucherTableProps}

voucherRows == displayRecords(voucherProps.records, voucherProps.pageSize)

hasMore == Len(voucherProps.records) > voucherPageSize(voucherProps)

\* "Found {totalCount} voucher(s)", then " - Showing first {pageSize} of
\* {totalCount}" when hasMore
voucherHeading ==
  [found |-> voucherProps.totalCount,
   showing |-> IF hasMore
                 THEN Some([first |-> voucherPageSize(voucherProps),
                            of |-> voucherProps.totalCount])
                 ELSE undefined]

\* "Note: Showing first {pageSize} vouchers. Total: {totalCount} ..."
voucherNote ==
  IF hasMore
    THEN Some([first |-> voucherPageSize(voucherProps), total |-> voucherProps.totalCount])
    ELSE undefined

InitVoucher ==
  /\ voucherProps \in SentVoucherProps
  /\ props = [data |-> <<>>, columns |-> <<>>, totalCount |-> undefined,
              pageSize |-> undefined, currentPage |-> undefined, onPageChange |-> FALSE,
              title |-> undefined, showPagination |-> TRUE]
  /\ internalPage = 1
  /\ last = [op |-> "start", arg |-> 0, cb |-> NoCall, from |-> 1,
             workbook |-> NoWorkbook, alert |-> FALSE]
  /\ InitChat
  /\ InitButtons(<<>>, FALSE)

\* the parent renders the table again for another answer
RenderVoucherTable ==
  /\ voucherProps' \in SentVoucherProps \ {voucherProps}
  /\ UNCHANGED <<props, internalPage, last, chatVars, buttonVars>>

NextVoucher == RenderVoucherTable

SpecVoucher == InitVoucher /\ [][NextVoucher]_vars

(***************************************************************************)
(* ChatInterface: handleSubmit.  The handler runs up to its await when the *)
(* form is submitted; the rest of try, catch and finally run as one step   *)
(* when the promise of sendMessageToAPI settles.  A submit event may       *)
(* arrive in any state: the handler's own guard decides.                   *)
(***************************************************************************)
MaxMessages == 6

Inputs == {"", "  ", "List top 5 debtors", " Show stock summary "}

\* !input.trim()
Blank(x) == DropSpaces(x) = ""

UserMessage(x) == [type |-> "user", content |-> x]
BotMessage(x) == [type |-> "bot", content |-> x]

InitChatInterface ==
  /\ InitChat
  /\ props = NoTable
  /\ internalPage = 1
  /\ last = [op |-> "start", arg |-> 0, cb |-> NoCall, from |-> 1,
             workbook |-> NoWorkbook, alert |-> FALSE]
  /\ NoVoucherTable
  /\ InitButtons(<<>>, FALSE)

\* onChange of the input (disabled while thinking or streaming) and the
\* four suggestion buttons of the empty chat
setInput ==
  /\ ~(isThinking \/ isStreaming) \/ Len(messages) = 0
  /\ input' \in Inputs \ {input}
  /\ last' = [op |-> "input"]
  /\ UNCHANGED <<messages, isThinking, isStreaming, inFlight>>
  /\ UNCHANGED <<props, internalPage, voucherVars, buttonVars>>

\* mutant: the guard is missing
handleSubmit_NoGuard ==
  /\ Len(messages) + 2 <= MaxMessages
  /\ IF FALSE
       THEN /\ last' = [op |-> "submit", accepted |-> FALSE]
            /\ UNCHANGED chatVars
       ELSE /\ messages' = Append(messages, UserMessage(input))
            /\ input' = ""
            /\ isThinking' = TRUE
            /\ isStreaming' = TRUE
            /\ inFlight' = inFlight + 1
            /\ last' = [op |-> "submit", accepted |-> TRUE]
  /\ UNCHANGED <<props, internalPage, voucherVars, buttonVars>>

handleSubmit ==
  /\ Len(messages) + 2 <= MaxMessages
  /\ IF Blank(input) \/ isThinking \/ isStreaming
       THEN /\ last' = [op |-> "submit", accepted |-> FALSE]
            /\ UNCHANGED chatVars
       ELSE /\ messages' = Append(messages, UserMessage(input))
            /\ input' = ""
            /\ isThinking' = TRUE
            /\ isStreaming' = TRUE
            /\ inFlight' = inFlight + 1
            /\ last' = [op |-> "submit", accepted |-> TRUE]
  /\ UNCHANGED <<props, internalPage, voucherVars, buttonVars>>

\* finally: setIsThinking(false), setIsStreaming(false)
finally ==
  /\ isThinking' = FALSE
  /\ isStreaming' = FALSE
  /\ inFlight' = inFlight - 1
  /\ UNCHANGED input

\* catch (error): the error message with error.message, and the toast
catch(error) ==
  /\ messages' = Append(messages, BotMessage("Error: " \o error))
  /\ last' = [op |-> "settled", toast |-> TRUE]

\* the request resolved with a response: the rest of try, or catch when
\* building the content throws
Resolved ==
  /\ inFlight > 0
  /\ \E r \in Responses :
       IF responseOutcome(r) = "error"
         THEN catch("TypeError")
         ELSE /\ messages' = Append(messages, BotMessage(responseOutcome(r)))
              /\ last' = [op |-> "settled", toast |-> FALSE]
  /\ finally
  /\ UNCHANGED <<props, internalPage, voucherVars, buttonVars>>

\* mutant: the flags are cleared in try only
Rejected_NoFinally ==
  /\ inFlight > 0
  /\ \E error \in {"Failed to fetch", "HTTP error"} : catch(error)
  /\ inFlight' = inFlight - 1
  /\ UNCHANGED <<input, isThinking, isStreaming>>
  /\ UNCHANGED <<props, internalPage, voucherVars, buttonVars>>

\* fetch rejected, the status was not ok or the body was not JSON
Rejected ==
  /\ inFlight > 0
  /\ \E error \in {"Failed to fetch", "HTTP error"} : catch(error)
  /\ finally
  /\ UNCHANGED <<props, internalPage, voucherVars, buttonVars>>

NextChat ==
  \/ setInput
  \/ handleSubmit
  \/ Resolved
  \/ Rejected

SpecChat == InitChatInterface /\ [][NextChat]_vars

\* a request that was sent settles
SpecChatFair == SpecChat /\ WF_vars(Resolved \/ Rejected)

(***************************************************************************)
(* ActionButtons: handleActionClick.  The handler runs up to its await     *)
(* when a button is clicked; the two state updates after the await run     *)
(* when the promise of onActionComplete is fulfilled, and do not run when  *)
(* it is rejected.                                                         *)
(***************************************************************************)
MaxCalls == 2

\* the actions prop: suggested actions of an answer; labels are any strings
ActionLists ==
  {<<"Confirm Order", "Notify Procurement", "Export Report", "Send Reminder">>,
   <<"Hold New Orders", "Place Orders">>,
   <<"", "Export Excel">>}

InitActionButtons ==
  /\ \E as \in ActionLists : \E cb \in BOOLEAN : InitButtons(as, cb)
  /\ props = NoTable
  /\ internalPage = 1
  /\ last = [op |-> "start", arg |-> 0, cb |-> NoCall, from |-> 1,
             workbook |-> NoWorkbook, alert |-> FALSE]
  /\ NoVoucherTable
  /\ InitChat

\* processingAction as a condition: null and the empty string are falsy
processing == processingAction # null /\ processingAction.v # ""

Remove(xs, i) == SubSeq(xs, 1, i - 1) \o SubSeq(xs, i + 1, Len(xs))

handleActionClick(action) ==
  /\ calls[action] < MaxCalls
  /\ IF action \in completedActions \/ processing
       THEN /\ last' = [op |-> "click", action |-> action, accepted |-> FALSE]
            /\ UNCHANGED <<completedActions, processingAction, awaiting, calls>>
       ELSE /\ last' = [op |-> "click", action |-> action, accepted |-> TRUE]
            /\ IF onActionComplete
                 THEN /\ processingAction' = Some(action)
                      /\ calls' = [calls EXCEPT ![action] = @ + 1]
                      /\ awaiting' = Append(awaiting, action)
                      /\ UNCHANGED completedActions
                 ELSE /\ completedActions' = completedActions \cup {action}
                      /\ processingAction' = null
                      /\ UNCHANGED <<awaiting, calls>>
  /\ UNCHANGED <<actions, onActionComplete>>
  /\ UNCHANGED <<props, internalPage, voucherVars, chatVars>>

\* the disabled attribute of the button of an action
disabled(action) ==
  \/ action \in completedActions
  \/ processingAction = Some(action)
  \/ processing

\* onClick of a button; a disabled button fires no click
ClickAction ==
  \E k \in 1..Len(actions) :
    /\ ~disabled(actions[k])
    /\ handleActionClick(actions[k])

\* the promise is fulfilled: setCompletedActions(prev => add), then
\* setProcessingAction(null)
CallbackFulfilled ==
  \E i \in 1..Len(awaiting) :
    /\ completedActions' = completedActions \cup {awaiting[i]}
    /\ processingAction' = null
    /\ awaiting' = Remove(awaiting, i)
    /\ last' = [op |-> "fulfilled", action |-> awaiting[i]]
    /\ UNCHANGED <<actions, onActionComplete, calls>>
    /\ UNCHANGED <<props, internalPage, voucherVars, chatVars>>

\* the promise is rejected (or the callback threw): the await throws and
\* the handler ends there
CallbackRejected ==
  \E i \in 1..Len(awaiting) :
    /\ awaiting' = Remove(awaiting, i)
    /\ last' = [op |-> "rejected", action |-> awaiting[i]]
    /\ UNCHANGED <<actions, onActionComplete, completedActions, processingAction, calls>>
    /\ UNCHANGED <<props, internalPage, voucherVars, chatVars>>

NextButtons ==
  \/ ClickAction
  \/ CallbackFulfilled
  \/ CallbackRejected

SpecButtons == InitActionButtons /\ [][NextButtons]_vars

\* a promise returned by onActionComplete settles, one way or the other
SpecButtonsFair == SpecButtons /\ WF_vars(CallbackFulfilled \/ CallbackRejected)

(***************************************************************************)
(* Properties.                                                             *)
(***************************************************************************)
InRange(k) == k >= 1 /\ k <= totalPages

\* rows from..to (1-based, inclusive) of the row array, in order
RowsFromTo(from, to) == [i \in 1..(to - from + 1) |-> props.data[from + i - 1]]

\* C1: with pagination enabled, on every page k in 1..totalPages the visible
\* slice has length min(pageSize, n - (k-1)*pageSize) and is rows
\* (k-1)*pageSize+1 .. min(k*pageSize, n) of the row array, in order.
C1_SliceOfEveryNavigablePage ==
  (props.showPagination /\ InRange(currentPage)) =>
    LET n == Len(props.data)
        k == currentPage
    IN  /\ Len(paginatedData) = Min(pageSize, n - (k - 1) * pageSize)
        /\ paginatedData = RowsFromTo((k - 1) * pageSize + 1, Min(k * pageSize, n))

\* C2: with pagination enabled, for a page index outside 1..totalPages the
\* visible slice is empty.
C2_SliceOutsideRangeIsEmpty ==
  (props.showPagination /\ ~InRange(currentPage)) => Len(paginatedData) = 0

\* C3: a navigation request for a page below 1 or above totalPages changes
\* nothing: the displayed page, the internal page index and the props stay
\* as they were and onPageChange is not invoked.
C3_OutOfRangeNavigationIsNoOp ==
  [][(last'.op = "nav" /\ (last'.arg < 1 \/ last'.arg > totalPages)) =>
       /\ internalPage' = internalPage
       /\ currentPage' = currentPage
       /\ props' = props
       /\ last'.cb = NoCall]_vars

C3_Witness ==
  /\ last.op = "nav"
  /\ last.arg > totalPages
  /\ props.currentPage = undefined
  /\ internalPage = last.arg - 1
  /\ last.cb = NoCall

\* C4: the page size used for the slice, for totalPages and for the caption
\* is the caller-supplied pageSize, 10 when none is given; the voucher
\* variant alone shows 5 rows per page.
C4_ConfiguredPageSizeIsUsed ==
  LET p == IF props.pageSize # undefined THEN props.pageSize.v ELSE 10
  IN  /\ totalPages = Ceil(effectiveTotalCount, p)
      /\ props.showPagination =>
           paginatedData = Slice(props.data, (currentPage - 1) * p, currentPage * p)
      /\ showingFrom = (currentPage - 1) * p + 1
      /\ showingTo = Min(currentPage * p, effectiveTotalCount)
      /\ Len(displayRecords(props.data, undefined)) = Min(Len(props.data), 5)

\* C5: while the caller supplies currentPage, no step writes the internal
\* page index, and every in-range navigation request invokes onPageChange
\* with the requested page.
C5_ControlledNeverWritesInternalPage ==
  [][(props.currentPage # undefined /\ props'.currentPage # undefined) =>
       /\ internalPage' = internalPage
       /\ (last'.op = "nav" /\ last'.arg >= 1 /\ last'.arg <= totalPages) =>
            last'.cb = last'.arg]_vars

\* C6: without currentPage the internal page index is 1 after mount, and
\* every render in which data.length changed leaves it at 1.
C6_UncontrolledStartsAtOneAndResets ==
  /\ internalPage = 1
  /\ [][(Len(props'.data) # Len(props.data) /\ props'.currentPage = undefined) =>
          internalPage' = 1]_vars

C6_Witness ==
  /\ last.op = "render"
  /\ last.arg = 1
  /\ last.from > 1
  /\ props.currentPage = undefined
  /\ internalPage = 1

\* C7: without currentPage, after every in-range navigation request the
\* displayed page is the requested page, with or without onPageChange.
C7_UncontrolledNavigationShowsRequestedPage ==
  (last.op = "nav" /\ props.currentPage = undefined /\ InRange(last.arg)) =>
    currentPage = last.arg

\* C8: totalPages is the least number of pages of pageSize rows that hold
\* totalCount rows, totalCount being the supplied count or else data.length.
C8_TotalPagesIsCeiling ==
  LET count == IF props.totalCount.some THEN props.totalCount.v ELSE Len(props.data)
  IN  /\ totalPages * pageSize >= count
      /\ (totalPages - 1) * pageSize < count

C8_Witness ==
  /\ props.totalCount = Some(MaxTotal)
  /\ Len(props.data) = 3
  /\ totalPages = Ceil(MaxTotal, pageSize)
  /\ MaxTotal % pageSize # 0

\* C9: on every in-range page k the caption is "from-to of total" with
\* from = (k-1)*pageSize+1 and to = min(k*pageSize, total), and the rows
\* shown are exactly rows from..to of the row array.
C9_CaptionMatchesRowsShown ==
  (props.showPagination /\ ~emptyState /\ InRange(currentPage)) =>
    LET from == (currentPage - 1) * pageSize + 1
        to == Min(currentPage * pageSize, effectiveTotalCount)
    IN  /\ caption = <<from, to, effectiveTotalCount>>
        /\ Len(paginatedData) = to - from + 1
        /\ \A i \in 1..Len(paginatedData) :
             /\ from + i - 1 \in 1..Len(props.data)
             /\ paginatedData[i] = props.data[from + i - 1]

\* C10: a written workbook holds one record per row of the whole row array,
\* in row order, whatever the page, the mode and showPagination; the same
\* table on any other page exports the same records.
C10_ExportCoversAllRows ==
  (last.op = "export" /\ last.workbook.written) =>
    LET records == last.workbook.records
    IN  /\ Len(records) = Len(props.data)
        /\ \A i \in 1..Len(records) : records[i].ID = props.data[i].id
        /\ \A k \in CurrentPages :
             exportDataOf([props EXCEPT !.currentPage = k]) = records

C10_Witness ==
  /\ last.op = "export"
  /\ last.workbook.written
  /\ props.showPagination
  /\ currentPage = 2
  /\ Len(paginatedData) = pageSize
  /\ Len(last.workbook.records) = MaxRows

(***************************************************************************)
(* Properties of the cells, the keys, the export records and the payload   *)
(* handling, checked under SpecCells (C18 under Spec).                     *)
(***************************************************************************)
exported == last.op = "export" /\ last.workbook.written

\* the columns that go into the export, by position in props.columns
Eligible == {j \in 1..Len(props.columns) : props.columns[j].key # "actions"}

\* column j is the only exported column with its header
OwnHeader(j) ==
  \A j2 \in Eligible : props.columns[j2].header = props.columns[j].header => j2 = j

\* the field of row i that column j reads
Raw(i, j) == Get(props.data[i], props.columns[j].key)

\* the exported value of row i under column j
Exported(i, j) == last.workbook.records[i][props.columns[j].header]

Plain(col) == "render" \notin DOMAIN col /\ "accessor" \notin DOMAIN col

\* C11: a field that already holds the string "Yes" or "No" is exported as
\* that same string under every exported column, the one keyed 'balanced'
\* included.
C11_YesNoStringsExportedUnchanged ==
  exported =>
    \A i \in 1..Len(props.data) : \A j \in Eligible :
      (OwnHeader(j) /\ Raw(i, j) \in {Str("Yes"), Str("No")}) =>
        Exported(i, j) = Raw(i, j)

\* the entry of the coercion table for one field: whether exported value e
\* is what the ordered rules give for value v under column key k
FollowsCoercionTable(k, v, e) ==
  IF v.t \in {"null", "undefined"} THEN e = Str("")
  ELSE IF v.t = "array" THEN e = Str(JoinSep(v.items, ", "))
  ELSE IF v.t = "object" THEN
    LET fields == <<Get(v.o, "name"), Get(v.o, "value"), Get(v.o, "label")>>
        usable == {c \in 1..3 : Truthy(fields[c])}
    IN  IF v.str # "[object Object]" THEN e = Str(v.str)
        ELSE IF usable # {} THEN e = fields[CHOOSE c \in usable : \A c2 \in usable : c <= c2]
        ELSE e = Str("")
  ELSE IF k = "balanced" THEN
    /\ e \in {Str("Yes"), Str("No")}
    /\ v.t = "boolean" => (e = Str("Yes") <=> v.b)
  ELSE IF v.t = "boolean" THEN e = Str("Yes") <=> v.b
  ELSE IF v.t = "number" THEN e = v
  ELSE e.t = "string" /\ e.s = JsString(v)

\* C12: every exported value is the one the ordered coercion table gives
\* for the row's field: empty string for null/undefined, the joined string
\* for an array, string form or name/value/label or empty string for an
\* object, "Yes"/"No" for the 'balanced' field and for booleans, the number
\* itself for a number, the string form otherwise.
C12_ExportFollowsCoercionTable ==
  exported =>
    \A i \in 1..Len(props.data) : \A j \in Eligible :
      OwnHeader(j) =>
        /\ Exported(i, j) \in {Str("Yes"), Str("No")} \/ Exported(i, j).t \in {"string", "number"}
        /\ FollowsCoercionTable(props.columns[j].key, Raw(i, j), Exported(i, j))

C12_Witness ==
  /\ exported
  /\ Len(props.data) = 1
  /\ \E j \in Eligible :
       /\ props.columns[j].key = "name"
       /\ OwnHeader(j)
       /\ Raw(1, j) = Bool(TRUE)
       /\ Exported(1, j) = Str("Yes")
  /\ \E j \in Eligible : Raw(1, j) = Num(1) /\ Exported(1, j) = Num(1)

\* a currency column, and the number a formatted string stands for
IsCurrency(col) == "render" \in DOMAIN col /\ col.render.kind = "currency"
CurrencyNumber(v) == parseFloat(RemoveChars(v.s, {"₹", ","}))

\* C13: a currency field that arrives as a formatted string is shown as the
\* formatted currency string and exported as its numeric value.
C13_CurrencyStringExportedAsNumber ==
  exported =>
    \A i \in 1..Len(paginatedData) : \A j \in Eligible :
      LET col == props.columns[j]
          v == Raw(i, j)
      IN  (IsCurrency(col) /\ OwnHeader(j) /\ v.t = "string" /\ v.s # ""
             /\ ~IsNaN(CurrencyNumber(v))) =>
            /\ tableBody[i][j].content
                 = Text(col.render.currency \o toLocaleString(CurrencyNumber(v)))
            /\ Exported(i, j) = CurrencyNumber(v)

C15_AbsentValuesShowPlaceholder ==
  mounted =>
    \A i \in 1..Len(paginatedData) : \A j \in 1..Len(props.columns) :
      (Plain(props.columns[j])
         /\ Get(paginatedData[i], props.columns[j].key) \in {JsNull, JsUndefined, Str("")})
        => tableBody[i][j].content = Placeholder

\* C16: every visible cell comes from exactly one source: the render when
\* the column has one (whether or not it also has an accessor), else the
\* accessor when it has one, else the raw field.
C16_CellSourceOrder ==
  mounted =>
    \A i \in 1..Len(paginatedData) : \A j \in 1..Len(props.columns) :
      LET col == props.columns[j]
          row == paginatedData[i]
          cell == tableBody[i][j]
      IN  /\ "render" \in DOMAIN col =>
               /\ cell.used = "render"
               /\ cell.content = applyRender(col.render, Get(row, col.key), row, i - 1)
          /\ ("render" \notin DOMAIN col /\ "accessor" \in DOMAIN col) =>
               /\ cell.used = "accessor"
               /\ cell.content = applyAccessor(col.accessor, row, i - 1)
          /\ Plain(col) =>
               /\ cell.used = "raw"
               /\ cell.content \in {Placeholder, Text(JsString(Get(row, col.key)))}

C16_Witness ==
  /\ mounted
  /\ Len(paginatedData) = 2
  /\ \E j \in 1..Len(props.columns) :
       /\ "render" \in DOMAIN props.columns[j]
       /\ "accessor" \in DOMAIN props.columns[j]
       /\ tableBody[2][j].used = "render"
       /\ tableBody[2][j].content # applyAccessor(props.columns[j].accessor, paginatedData[2], 1)
  /\ \E j \in 1..Len(props.columns) : tableBody[2][j].used = "accessor"

\* C17: a payload whose rows or columns are missing is shown as an empty
\* table: the empty-state message is rendered, nothing is thrown and no
\* error reaches the user.
C17_MalformedPayloadShowsEmptyState ==
  (last.op = "response" /\ "table_data" \in DOMAIN last.payload
     /\ ("rows" \notin DOMAIN last.payload.table_data
           \/ "columns" \notin DOMAIN last.payload.table_data)) =>
    /\ last.outcome = "table"
    /\ emptyState
    /\ ~last.toast

Count(e, f) == IF f \in DOMAIN e THEN e[f] ELSE 0

\* C18: an export that fails logs once and alerts once and leaves the page
\* index and the props (rows, columns) as they were.
C18_ExportFailureIsContained ==
  [][(last'.op = "export" /\ ~last'.workbook.written) =>
       /\ Count(last', "alerts") = 1
       /\ Count(last', "logs") = 1
       /\ last'.alert
       /\ props' = props
       /\ internalPage' = internalPage]_vars

C18_Witness ==
  /\ last.op = "export"
  /\ ~last.workbook.written
  /\ Count(last, "alerts") = 1
  /\ internalPage = 2
  /\ props.currentPage = undefined

\* C19: the keys of the rows of one visible page are pairwise distinct.
C19_RowKeysDistinct ==
  mounted =>
    \A i1 \in 1..Len(paginatedData) : \A i2 \in 1..Len(paginatedData) :
      i1 # i2 => rowKeys[i1] # rowKeys[i2]

\* C20: the key of a visible row is the extractor's result when an
\* extractor is given, else the first defined one of the fields id, index,
\* key, else the row's position in the visible slice.
C20_RowKeyPriority ==
  mounted =>
    \A i \in 1..Len(paginatedData) :
      LET row == paginatedData[i]
          fields == <<Get(row, "id"), Get(row, "index"), Get(row, "key")>>
          defined == {c \in 1..3 : fields[c] # JsUndefined}
      IN  rowKeyValues[i] =
            IF "keyExtractor" \in DOMAIN props
              THEN applyKeyExtractor(props.keyExtractor, row, i - 1)
            ELSE IF defined # {}
              THEN fields[CHOOSE c \in defined : \A c2 \in defined : c <= c2]
            ELSE Num(i - 1)

C20_Witness ==
  /\ mounted
  /\ "keyExtractor" \notin DOMAIN props
  /\ Len(paginatedData) = 2
  /\ Get(paginatedData[2], "id") = Num(1)
  /\ Get(paginatedData[2], "index") = Num(2)
  /\ rowKeyValues[2] = Num(1)
  /\ Get(paginatedData[1], "id") = JsUndefined
  /\ Get(paginatedData[1], "index") = JsUndefined
  /\ Get(paginatedData[1], "key") = JsUndefined
  /\ rowKeyValues[1] = Num(0)

\* the text that follows a prefix, when s starts with it
StartsWith(s, prefix) == Len(s) >= Len(prefix) /\ SubSeq(s, 1, Len(prefix)) = prefix
After(s, prefix) == SubSeq(s, Len(prefix) + 1, Len(s))

\* n.dd: a decimal point followed by exactly two digits ends the text
TwoDecimals(x) ==
  /\ Len(x) >= 4
  /\ SubSeq(x, Len(x) - 2, Len(x) - 2) = "."
  /\ SubSeq(x, Len(x) - 1, Len(x) - 1) \in Digits
  /\ SubSeq(x, Len(x), Len(x)) \in Digits
  /\ SubSeq(x, Len(x) - 3, Len(x) - 3) \in Digits

\* the number the currency render coerces a value to
Coerced(v) == IF v.t = "string" THEN CurrencyNumber(v) ELSE JsNumber(v)

\* v shown as the prefix followed by the number with two decimals: the text
\* after the prefix reads back, separators removed, as the number rounded
\* to hundredths
ShownAsCurrency(cell, prefix, v) ==
  /\ cell.node = "text"
  /\ StartsWith(cell.s, prefix)
  /\ TwoDecimals(After(cell.s, prefix))
  /\ ~IsNaN(Coerced(v))
  /\ parseFloat(RemoveChars(After(cell.s, prefix), {","}))
       = MkNum(Hundredths(Coerced(v)), 2)

Absent(v) == v \in {JsNull, JsUndefined, Str("")}

C22_VoucherTableTruncationNotice ==
  LET n == Len(voucherProps.records)
      shown == Min(n, voucherPageSize(voucherProps))
  IN  /\ voucherRows = [i \in 1..shown |-> voucherProps.records[i]]
      /\ shown < voucherProps.totalCount =>
            /\ voucherHeading.showing = Some([first |-> shown, of |-> voucherProps.totalCount])
            /\ voucherNote = Some([first |-> shown, total |-> voucherProps.totalCount])

\* a render in which data.length changed while the caller supplied the same
\* currentPage before and after
ControlledLengthChange ==
  /\ Len(props'.data) # Len(props.data)
  /\ props.currentPage # undefined
  /\ props'.currentPage = props.currentPage

\* C23 as stated: when the number of rows changes while the caller controls
\* the page and has not reset it, the displayed page after the change is 1.
C23_ControlledLengthChangeShowsPageOne ==
  [][ControlledLengthChange => currentPage' = 1]_vars

\* C23 amended: when the number of rows changes while the caller controls
\* the page and has not reset it, no reset fires: the displayed page is
\* still the page the caller supplies, the internal page index is not
\* written and onPageChange is not invoked.
C23_ControlledLengthChangeKeepsCallerPage ==
  [][ControlledLengthChange =>
       /\ currentPage' = props.currentPage.v
       /\ internalPage' = internalPage
       /\ last'.cb = NoCall]_vars

C23_Witness ==
  /\ last.op = "render"
  /\ last.arg = 1
  /\ props.currentPage = Some(2)
  /\ currentPage = 2
  /\ internalPage = 2
  /\ Len(props.data) > 0

\* C24: the export has no in-flight guard.  After an export, whatever its
\* outcome, the button fires again on the unchanged table; every click
\* is counted with its own outcome, a written file or an alert; and the
\* records of a written file are those of the table's rows, so the files
\* of repeated clicks have identical content.
C24_EveryExportTriggerRuns ==
  last.op = "export" =>
    /\ last.arg < MaxTriggers => ENABLED handleExportToExcel
    /\ last.workbook.written => last.workbook.records = exportDataOf(props) /\ ~last.alert
    /\ ~last.workbook.written => last.alert /\ Count(last, "alerts") = 1

C24_Witness ==
  /\ last.op = "export"
  /\ last.arg = 2
  /\ last.workbook.written
  /\ Len(last.workbook.records) > pageSize

\* C25: while the caller supplies no currentPage and the table is not
\* empty, the internal page index lies in 1..totalPages.
C25_InternalPageInRange ==
  (props.currentPage = undefined /\ ~emptyState) =>
    (internalPage >= 1 /\ internalPage <= totalPages)

\* C26: every export record has one field per exported column, as many
\* fields as there are columns whose key is not 'actions', and the field of
\* each column holds that column's value.
C26_OneFieldPerExportedColumn ==
  exported =>
    \A i \in 1..Len(last.workbook.records) :
      /\ Cardinality(DOMAIN last.workbook.records[i]) = Cardinality(Eligible)
      /\ \A j \in Eligible :
           Exported(i, j) = coerceCell(props.columns[j].key, Raw(i, j))

\* C27: at most one request is in flight, and a submit while a request is
\* unresolved (isThinking or isStreaming set) or with blank input sends no
\* request and appends no message.
C27_OneRequestInFlight ==
  [][/\ inFlight' <= 1
     /\ (last'.op = "submit" /\ (isThinking \/ isStreaming \/ Blank(input))) =>
          (messages' = messages /\ inFlight' = inFlight /\ ~last'.accepted)]_vars

C27_Witness ==
  /\ last.op = "submit"
  /\ ~last.accepted
  /\ isThinking
  /\ isStreaming
  /\ inFlight = 1
  /\ Len(messages) = 3

\* user, bot, user, bot, ...
Alternates(ms) ==
  \A i \in 1..Len(ms) : ms[i].type = (IF i % 2 = 1 THEN "user" ELSE "bot")

\* C28: an accepted submit appends the user message and sets the flags; the
\* step in which the request settles appends exactly one bot message and
\* clears the flags; the message list alternates user, bot; and a blocked
\* interface is unblocked again once the request has settled.
C28_SubmissionAnsweredOnce ==
  /\ [](Alternates(messages) /\ (isThinking \/ isStreaming) = (inFlight > 0))
  /\ [][/\ (last'.op = "submit" /\ last' # last /\ last'.accepted) =>
            /\ messages' = Append(messages, UserMessage(input))
            /\ isThinking' /\ isStreaming'
        /\ inFlight' < inFlight =>
            /\ Len(messages') = Len(messages) + 1
            /\ SubSeq(messages', 1, Len(messages)) = messages
            /\ messages'[Len(messages')].type = "bot"
            /\ ~isThinking' /\ ~isStreaming']_vars
  /\ ((isThinking \/ isStreaming) ~> (~isThinking /\ ~isStreaming))

C28_Witness ==
  /\ Len(messages) = 4
  /\ messages[2] = BotMessage("Error: TypeError")
  /\ messages[4] = BotMessage("table")
  /\ ~isThinking
  /\ ~isStreaming
  /\ last.op = "settled"

\* C29: at most one action is processing at a time; a click while an
\* action is processing, or on a completed action, changes nothing; the
\* completed set only grows; the callback is invoked at most once per
\* action.
C29_OneActionAtATime ==
  /\ [](Len(awaiting) <= 1 /\ \A a \in DOMAIN calls : calls[a] <= 1)
  /\ [][/\ completedActions \subseteq completedActions'
        /\ (last'.op = "click" /\ last' # last
              /\ (Len(awaiting) > 0 \/ last'.action \in completedActions)) =>
             (~last'.accepted /\ UNCHANGED buttonVars)]_vars

\* C30: an action that is being processed stops being processed: once its
\* callback has settled, fulfilled or rejected, the processing marker is
\* cleared.
C30_ProcessingEventuallyCleared ==
  (processingAction # null) ~> (processingAction = null)
====
